---- MODULE Spec2Model ----
(***************************************************************************)
(* Host-side state machine of the progressive path tracer                  *)
(* (src/src/pathtracing/pathtracer.rs) and of the GPU context it renders   *)
(* into, the frame timer and the application driver (src/src/common.rs).   *)
(*                                                                         *)
(* f32 values are modelled as [mant, exp] with value mant * 2^exp, mant    *)
(* either 0 or a 24 bit significand in [2^23, 2^24), and every f32         *)
(* operation rounds to nearest, ties to even, as IEEE-754 does.            *)
(***************************************************************************)
EXTENDS Integers, Sequences, FiniteSets, TLC

VARIABLES
    config,            \* WGPUContext.config: [width, height]
    surface,           \* size the presentation surface was last configured with
    output,            \* Pathtracer.output: [id, width, height]
    global_group,      \* Pathtracer.global_group: [output, camera, lds, envmap]
    lds_buffer,        \* Pathtracer.lds_buffer: [id, n, dims, len]
    globals,           \* Pathtracer.globals: [sample, weight, bounces, contribution_factor]
    max_sample_count,  \* Pathtracer.max_sample_count
    next_texture,      \* identity the device gives to the next texture it creates
    last_call,         \* the operation called most recently: [op], with new_size for context_resize
    gpu_calls,         \* device / surface / encoder calls made by that operation
    given,             \* [camera, envmap] passed to the most recent new / update
    pushed,            \* (sample, weight) pairs pushed to the kernel since sample was last 0
    metrics,           \* PerformanceMetrics: [last_frame, curr_frame_time, time_since_start,
                       \*   frame_time_buffer, idx, n_frames, summed_frame_time]
    clock,             \* the reading of std::time::Instant::now() at the latest timer call
    timer_calls,       \* the calls made on the timer so far: [op, at]
    app,               \* AppHandler.app: None, or Some([window]) holding the window it renders to
    exiting,           \* whether event_loop.exit() has been called
    windows_created,   \* windows the event loop has created; the k-th has id k
    redraw_pending,    \* whether a redraw is requested for the window of app and not yet delivered
    event,             \* the event delivered most recently: [handler, serial], with its payload;
                       \*   serial tells it from the event delivered before it
    app_calls,         \* calls that handler made on the event loop, the window and the App, in order
    lds_input,         \* [n, bounces] the sampling table is generated for
    lds_table          \* the generated table: None, or Some(the sequence of sample_4d results)

pathtracer_vars == <<config, surface, output, global_group, lds_buffer, globals,
                     max_sample_count, next_texture, last_call, gpu_calls, given, pushed>>

timer_vars == <<metrics, clock, timer_calls>>

driver_vars == <<app, exiting, windows_created, redraw_pending, event, app_calls>>

table_vars == <<lds_input, lds_table>>

vars == <<pathtracer_vars, timer_vars, driver_vars, table_vars>>

renderer == <<output, global_group, lds_buffer, globals, max_sample_count>>

(***************************************************************************)
(* Bounds of the exploration.                                              *)
(***************************************************************************)
\* largest max_sample_count a caller assigns, and the samples explored with the default
MaxSamples == 3
\* largest bounce count a caller assigns
MaxBounces == 1
\* textures the device hands out in one run
MaxTextures == 2
\* window sizes are multiples of DimStep, up to MaxDimSteps * DimStep
DimStep == 27
MaxDimSteps == 2
\* window sizes of the texture-size specification: every size up to MaxWindow
MaxWindow == 60

\* largest ring buffer capacity of a frame timer
MaxCapacity == 2
\* largest time between two timer calls, in clock ticks
MaxFrameTime == 2
\* calls made on one frame timer
MaxTimerCalls == 5

\* windows the event loop creates in one run
MaxWindows == 2
\* largest sample count and bounce count a sampling table is generated for
MaxTableSamples == 12
MaxTableBounces == 8

Cameras == {"camera_a", "camera_b"}
EnvMaps == {"envmap_a", "envmap_b"}

DimSet == {k * DimStep : k \in 0..MaxDimSteps}
Sizes ==
    {[width |-> w, height |-> DimStep] : w \in DimSet}
        \cup {[width |-> w, height |-> 0] : w \in {0, DimStep}}
\* the sizes of the texture-size specification: one dimension runs over 0..MaxWindow
WideSizes ==
    {[width |-> w, height |-> DimStep] : w \in 0..MaxWindow}
        \cup {[width |-> DimStep, height |-> h] : h \in 0..MaxWindow}

(***************************************************************************)
(* f32 arithmetic.                                                         *)
(***************************************************************************)
F32Zero == [mant |-> 0, exp |-> 0]

RECURSIVE BitLen(_)
BitLen(n) == IF n = 0 THEN 0 ELSE 1 + BitLen(n \div 2)

RECURSIVE TrailingZeros(_)
TrailingZeros(n) == IF n = 0 \/ n % 2 = 1 THEN 0 ELSE 1 + TrailingZeros(n \div 2)

\* the f32 nearest to p * 2^e (ties to even), for an integer p >= 0
RoundToF32(p, e) ==
    IF p = 0 THEN F32Zero
    ELSE LET bits == BitLen(p) IN
         IF bits <= 24
         THEN [mant |-> p * 2^(24 - bits), exp |-> e - (24 - bits)]
         ELSE LET k    == bits - 24
                  q    == p \div 2^k
                  r    == p % 2^k
                  half == 2^(k - 1)
                  up   == r > half \/ (r = half /\ q % 2 = 1)
                  m    == IF up THEN q + 1 ELSE q
              IN  IF m = 2^24
                  THEN [mant |-> 2^23, exp |-> e + k + 1]
                  ELSE [mant |-> m, exp |-> e + k]

\* u32 as f32 (UVec2::as_vec2)
F32FromU32(n) == RoundToF32(n, 0)

\* a * b in f32: the exact product of the significands, rounded once
F32Mul(a, b) ==
    IF a.mant = 0 \/ b.mant = 0 THEN F32Zero
    ELSE LET za == TrailingZeros(a.mant)
             zb == TrailingZeros(b.mant)
         IN  RoundToF32((a.mant \div 2^za) * (b.mant \div 2^zb),
                        a.exp + za + b.exp + zb)

\* f32 as u32 (Vec2::as_uvec2): truncation toward zero
F32ToU32(x) ==
    IF x.mant = 0 THEN 0
    ELSE IF x.exp >= 0 THEN x.mant * 2^x.exp
    ELSE IF -x.exp > 24 THEN 0
    ELSE x.mant \div 2^(-x.exp)

\* 1.0 / (s as f32) for s >= 1
F32Recip(s) ==
    LET k == BitLen(s) - 1 IN
    IF s = 2^k THEN [mant |-> 2^23, exp |-> -k - 23]
    ELSE LET num == 2^(24 + k)
             q   == num \div s
             r   == num % s
         IN  [mant |-> IF 2 * r > s THEN q + 1 ELSE q, exp |-> -(24 + k)]

(***************************************************************************)
(* Program constants.                                                      *)
(***************************************************************************)
COMPUTE_SIZE == 8
LDS_PER_BOUNCE == 2
DefaultMaxSampleCount == 1024
DefaultBounces == 8
\* 0.3f32 = 10066330 * 2^-25
resolution_factor == [mant |-> 10066330, exp |-> -25]
\* 4.0f32
DefaultContributionFactor == [mant |-> 8388608, exp |-> -21]

GlobalsDefault ==
    [sample |-> 0, weight |-> F32Zero, bounces |-> DefaultBounces,
     contribution_factor |-> DefaultContributionFactor]

(***************************************************************************)
(* WGPUContext (src/src/common.rs).                                        *)
(***************************************************************************)
\* PhysicalSize derives Ord: sizes compare by width, then by height
SizeMax(a, b) ==
    IF a.width > b.width \/ (a.width = b.width /\ a.height >= b.height) THEN a ELSE b

\* WGPUContext::new: the configuration built from the window's inner size
InitialConfig(inner_size) == SizeMax(inner_size, [width |-> 1, height |-> 1])

\* the size test with "or" for "and"
NonZeroAreaEither(new_size) == new_size.width > 0 \/ new_size.height > 0

\* WGPUContext::resize: the size test
NonZeroArea(new_size) == new_size.width > 0 /\ new_size.height > 0

ConfigureCall(cfg) == [call |-> "surface.configure", width |-> cfg.width, height |-> cfg.height]

\* WGPUContext::resize
ContextResize(new_size) ==
    /\ IF NonZeroArea(new_size)
       THEN /\ config' = [width |-> new_size.width, height |-> new_size.height]
            /\ surface' = config'
            /\ gpu_calls' = <<ConfigureCall(config')>>
       ELSE /\ UNCHANGED <<config, surface>>
            /\ gpu_calls' = <<>>
    /\ last_call' = [op |-> "context_resize", new_size |-> new_size]
    /\ UNCHANGED <<renderer, next_texture, given, pushed>>

(***************************************************************************)
(* Pathtracer (src/src/pathtracing/pathtracer.rs).                         *)
(***************************************************************************)
\* the dimension rounded up to the next tile instead of down
OutputDimRoundUp(d, factor) ==
    ((F32ToU32(F32Mul(F32FromU32(d), factor)) + COMPUTE_SIZE - 1) \div COMPUTE_SIZE) * COMPUTE_SIZE

\* one dimension of create_output_texture: (d as f32 * factor) as u32 / 8 * 8
OutputDim(d, factor) ==
    (F32ToU32(F32Mul(F32FromU32(d), factor)) \div COMPUTE_SIZE) * COMPUTE_SIZE

\* Pathtracer::create_output_texture; id is the identity of the new texture
CreateOutputTexture(cfg, factor, id) ==
    [id |-> id,
     width |-> OutputDim(cfg.width, factor),
     height |-> OutputDim(cfg.height, factor)]

CreateTextureCall(tex) ==
    [call |-> "device.create_texture", id |-> tex.id, width |-> tex.width, height |-> tex.height]

\* the sampling table generated in Pathtracer::new: n rows of dims vectors
CreateLdsBuffer(n, bounces) ==
    LET dims == bounces * LDS_PER_BOUNCE + 1
    IN  [id |-> "lds", n |-> n, dims |-> dims, len |-> n * dims]

\* Pathtracer::create_global_group
CreateGlobalGroup(out, camera, lds, envmap) ==
    [output |-> out, camera |-> camera, lds |-> lds, envmap |-> envmap]

CreateBindGroupCall(group) == [call |-> "device.create_bind_group", group |-> group]

\* the saturation test with ">" for ">="
SaturatedOffByOne(g, max) == g.sample > max

\* Pathtracer::dispatch: the saturation test
Saturated(g, max) == g.sample >= max

\* the weight taken from the sample index before the increment (1.0 / 0 is +inf)
F32Inf == [mant |-> 0, exp |-> 128]
NextGlobalsWeightFirst(g) ==
    [g EXCEPT !.sample = g.sample + 1,
              !.weight = IF g.sample = 0 THEN F32Inf ELSE F32Recip(g.sample)]

\* Pathtracer::dispatch: the accumulation state after the increment
NextGlobals(g) ==
    [g EXCEPT !.sample = g.sample + 1, !.weight = F32Recip(g.sample + 1)]

\* an invalidate that clears the weight and forgets the sample index
InvalidatedGlobalsWeightOnly(g) == [g EXCEPT !.weight = F32Zero]

\* Pathtracer::invalidate on the accumulation state
InvalidatedGlobals(g) == [g EXCEPT !.sample = 0]

\* Pathtracer::dispatch: the workgroup grid
NWorkgroups(out) ==
    [x |-> out.width \div COMPUTE_SIZE, y |-> out.height \div COMPUTE_SIZE, z |-> 1]

\* the encoder calls of one recorded dispatch
ComputePass(group, g, grid) ==
    << [call |-> "begin_compute_pass"],
       [call |-> "set_pipeline"],
       [call |-> "set_bind_group", index |-> 0, group |-> group],
       [call |-> "set_bind_group", index |-> 1, group |-> "scene"],
       [call |-> "set_push_constants", globals |-> g],
       [call |-> "dispatch_workgroups", grid |-> grid] >>

\* the state Pathtracer::new leaves behind, for a window of the given inner size
New(inner_size, camera, envmap) ==
    LET cfg == InitialConfig(inner_size)
        out == CreateOutputTexture(cfg, resolution_factor, 1)
        lds == CreateLdsBuffer(DefaultMaxSampleCount, GlobalsDefault.bounces)
        grp == CreateGlobalGroup(out, camera, lds, envmap)
    IN  /\ config = cfg
        /\ surface = cfg
        /\ output = out
        /\ lds_buffer = lds
        /\ global_group = grp
        /\ globals = GlobalsDefault
        /\ max_sample_count = DefaultMaxSampleCount
        /\ next_texture = 2
        /\ last_call = [op |-> "new"]
        /\ gpu_calls = <<ConfigureCall(cfg), CreateTextureCall(out), CreateBindGroupCall(grp)>>
        /\ given = [camera |-> camera, envmap |-> envmap]
        /\ pushed = <<>>

\* a resize that also resets the accumulation
ResizeAndInvalidate ==
    /\ next_texture <= MaxTextures
    /\ output' = CreateOutputTexture(config, resolution_factor, next_texture)
    /\ next_texture' = next_texture + 1
    /\ globals' = InvalidatedGlobals(globals)
    /\ pushed' = <<>>
    /\ last_call' = [op |-> "resize"]
    /\ gpu_calls' = <<CreateTextureCall(output')>>
    /\ UNCHANGED <<config, surface, global_group, lds_buffer, max_sample_count, given>>

\* Pathtracer::resize
Resize ==
    /\ next_texture <= MaxTextures
    /\ output' = CreateOutputTexture(config, resolution_factor, next_texture)
    /\ next_texture' = next_texture + 1
    /\ last_call' = [op |-> "resize"]
    /\ gpu_calls' = <<CreateTextureCall(output')>>
    /\ UNCHANGED <<config, surface, global_group, lds_buffer, globals,
                   max_sample_count, given, pushed>>

\* Pathtracer::invalidate
Invalidate ==
    /\ globals' = InvalidatedGlobals(globals)
    /\ pushed' = IF globals'.sample = 0 THEN <<>> ELSE pushed
    /\ last_call' = [op |-> "invalidate"]
    /\ gpu_calls' = <<>>
    /\ UNCHANGED <<config, surface, output, global_group, lds_buffer,
                   max_sample_count, next_texture, given>>

\* an update that rebuilds the bindings and forgets to invalidate
UpdateWithoutInvalidate(camera, envmap) ==
    /\ global_group' = CreateGlobalGroup(output, camera, lds_buffer, envmap)
    /\ given' = [camera |-> camera, envmap |-> envmap]
    /\ last_call' = [op |-> "update"]
    /\ gpu_calls' = <<CreateBindGroupCall(global_group')>>
    /\ UNCHANGED <<config, surface, output, lds_buffer, globals, max_sample_count,
                   next_texture, pushed>>

\* Pathtracer::update
Update(camera, envmap) ==
    /\ global_group' = CreateGlobalGroup(output, camera, lds_buffer, envmap)
    /\ globals' = InvalidatedGlobals(globals)
    /\ pushed' = IF globals'.sample = 0 THEN <<>> ELSE pushed
    /\ given' = [camera |-> camera, envmap |-> envmap]
    /\ last_call' = [op |-> "update"]
    /\ gpu_calls' = <<CreateBindGroupCall(global_group')>>
    /\ UNCHANGED <<config, surface, output, lds_buffer, max_sample_count, next_texture>>

\* Pathtracer::dispatch
Dispatch ==
    /\ Saturated(globals, max_sample_count) \/ globals.sample < MaxSamples
    /\ IF Saturated(globals, max_sample_count)
       THEN /\ gpu_calls' = <<>>
            /\ UNCHANGED <<globals, pushed>>
       ELSE /\ globals' = NextGlobals(globals)
            /\ gpu_calls' = ComputePass(global_group, globals', NWorkgroups(output))
            /\ pushed' = Append(pushed, [sample |-> globals'.sample, weight |-> globals'.weight])
    /\ last_call' = [op |-> "dispatch"]
    /\ UNCHANGED <<config, surface, output, global_group, lds_buffer,
                   max_sample_count, next_texture, given>>

\* a caller assigns the public field globals.bounces
SetBounces(b) ==
    /\ globals' = [globals EXCEPT !.bounces = b]
    /\ last_call' = [op |-> "set_bounces"]
    /\ gpu_calls' = <<>>
    /\ UNCHANGED <<config, surface, output, global_group, lds_buffer,
                   max_sample_count, next_texture, given, pushed>>

\* a caller assigns the public field max_sample_count
SetMaxSampleCount(m) ==
    /\ max_sample_count' = m
    /\ last_call' = [op |-> "set_max_sample_count"]
    /\ gpu_calls' = <<>>
    /\ UNCHANGED <<config, surface, output, global_group, lds_buffer,
                   globals, next_texture, given, pushed>>

(***************************************************************************)
(* Option values: None, or Some(x) holding x.                              *)
(***************************************************************************)
None == <<>>
Some(x) == <<x>>

(***************************************************************************)
(* PerformanceMetrics<BUFFER_SIZE> (src/src/common.rs).  Instants and      *)
(* Durations are whole ticks of the monotonic clock.                       *)
(***************************************************************************)
\* frame times between two next_frame calls
FrameTimes == 0..MaxFrameTime

\* PerformanceMetrics::default()
PerformanceMetricsDefault(BUFFER_SIZE) ==
    [last_frame |-> None,
     curr_frame_time |-> 0,
     time_since_start |-> 0,
     frame_time_buffer |-> [i \in 1..BUFFER_SIZE |-> 0],
     idx |-> 0,
     n_frames |-> 0,
     summed_frame_time |-> 0]

\* the const generic BUFFER_SIZE of a timer: the length of its ring buffer
BufferSize(m) == Len(m.frame_time_buffer)

\* next_frame whose running sum never gives up the slot it overwrites
NextFrameNoEviction(m, now) ==
    IF m.last_frame = None
    THEN [m EXCEPT !.last_frame = Some(now)]
    ELSE LET curr == now - m.last_frame[1]
         IN  [last_frame |-> Some(now),
              curr_frame_time |-> curr,
              time_since_start |-> m.time_since_start + curr,
              summed_frame_time |-> m.summed_frame_time + curr,
              n_frames |-> IF m.n_frames < BufferSize(m) THEN m.n_frames + 1 ELSE m.n_frames,
              frame_time_buffer |-> [m.frame_time_buffer EXCEPT ![m.idx + 1] = curr],
              idx |-> (m.idx + 1) % BufferSize(m)]

\* PerformanceMetrics::next_frame, called when the clock reads now
NextFrameMetrics(m, now) ==
    IF m.last_frame = None
    THEN [m EXCEPT !.last_frame = Some(now)]
    ELSE LET curr == now - m.last_frame[1]
             summed == m.summed_frame_time + curr
         IN  [last_frame |-> Some(now),
              curr_frame_time |-> curr,
              time_since_start |-> m.time_since_start + curr,
              summed_frame_time |->
                  IF m.n_frames < BufferSize(m)
                  THEN summed
                  ELSE summed - m.frame_time_buffer[m.idx + 1],
              n_frames |-> IF m.n_frames < BufferSize(m) THEN m.n_frames + 1 ELSE m.n_frames,
              frame_time_buffer |-> [m.frame_time_buffer EXCEPT ![m.idx + 1] = curr],
              idx |-> (m.idx + 1) % BufferSize(m)]

\* pause that leaves the anchor in place
PauseKeepsAnchor(m) == m

\* PerformanceMetrics::pause
PauseMetrics(m) == [m EXCEPT !.last_frame = None]

\* next_frame() is called after the clock has advanced by d
NextFrame(d) ==
    /\ Len(timer_calls) < MaxTimerCalls
    /\ clock' = clock + d
    /\ metrics' = NextFrameMetrics(metrics, clock')
    /\ timer_calls' = Append(timer_calls, [op |-> "next_frame", at |-> clock'])
    /\ UNCHANGED <<pathtracer_vars, driver_vars, table_vars>>

\* pause() is called
Pause ==
    /\ Len(timer_calls) < MaxTimerCalls
    /\ metrics' = PauseMetrics(metrics)
    /\ timer_calls' = Append(timer_calls, [op |-> "pause", at |-> clock])
    /\ UNCHANGED <<clock, pathtracer_vars, driver_vars, table_vars>>

\* a timer of capacity BUFFER_SIZE right after construction
NewTimer(BUFFER_SIZE) ==
    /\ metrics = PerformanceMetricsDefault(BUFFER_SIZE)
    /\ clock = 0
    /\ timer_calls = <<>>

(***************************************************************************)
(* AppHandler<T: App> (src/src/common.rs), driven by the winit event loop. *)
(* The App behind the trait is seen through the calls the handler makes.   *)
(***************************************************************************)
KeyStates == {"Pressed", "Released"}
KeyCodes == {"Escape", "KeyA"}
\* what App::render returns: Ok(()) or the SurfaceError
RenderResults == {"Ok", "Lost", "OutOfMemory", "Outdated", "Timeout"}
\* sizes carried by Resized events and returned by Window::inner_size
EventSizes == Sizes

\* the WindowEvent values delivered; Focused stands for the kinds window_event does not match
WindowEvents ==
    {[kind |-> "CloseRequested"], [kind |-> "RedrawRequested"], [kind |-> "Focused"]}
        \cup {[kind |-> "KeyboardInput", state |-> s, physical_key |-> k] :
                 s \in KeyStates, k \in KeyCodes}
        \cup {[kind |-> "Resized", new_size |-> z] : z \in EventSizes}

\* AppHandler::default()
AppHandlerDefault ==
    /\ app = None
    /\ exiting = FALSE
    /\ windows_created = 0
    /\ redraw_pending = FALSE
    /\ event = [handler |-> "default", serial |-> 0]
    /\ app_calls = <<>>

\* the first match arm with the key state left out of the pattern
IsExitEventAnyKeyState(e) ==
    \/ e.kind = "CloseRequested"
    \/ e.kind = "KeyboardInput" /\ e.physical_key = "Escape"

\* window_event: the pattern of the first match arm
IsExitEvent(e) ==
    \/ e.kind = "CloseRequested"
    \/ e.kind = "KeyboardInput" /\ e.state = "Pressed" /\ e.physical_key = "Escape"

\* the match on the render result with Outdated handled like Lost
OnRenderResultOutdatedResizes(result, inner_size) ==
    CASE result = "Ok" -> <<>>
      [] result \in {"Lost", "Outdated"} ->
            <<[op |-> "inner_size", returned |-> inner_size],
              [op |-> "resize", new_size |-> inner_size]>>
      [] result = "OutOfMemory" -> <<[op |-> "exit"]>>
      [] OTHER -> <<>>

\* window_event: the match on what render returned; inner_size is what
\* Window::inner_size returns when it is asked
OnRenderResult(result, inner_size) ==
    CASE result = "Ok" -> <<>>
      [] result = "Lost" ->
            <<[op |-> "inner_size", returned |-> inner_size],
              [op |-> "resize", new_size |-> inner_size]>>
      [] result = "OutOfMemory" -> <<[op |-> "exit"]>>
      [] OTHER -> <<>>

\* the RedrawRequested arm that asks for the next redraw only after a failed render
OnRedrawRequestedNoLoop(result, inner_size) ==
    <<[op |-> "update"], [op |-> "render", returned |-> result]>>
        \o OnRenderResult(result, inner_size)
        \o (IF result = "Ok" THEN <<>> ELSE <<[op |-> "request_redraw"]>>)

\* window_event: the RedrawRequested arm
OnRedrawRequested(result, inner_size) ==
    <<[op |-> "update"], [op |-> "render", returned |-> result]>>
        \o OnRenderResult(result, inner_size)
        \o <<[op |-> "request_redraw"]>>

\* the Resized arm asking for the redraw before it resizes
OnResizedRedrawFirst(new_size) ==
    <<[op |-> "request_redraw"], [op |-> "resize", new_size |-> new_size]>>

\* window_event: the Resized arm
OnResized(new_size) ==
    <<[op |-> "resize", new_size |-> new_size], [op |-> "request_redraw"]>>

\* window_event forwarding the event only when no arm matches it
OnWindowEventForwardUnmatched(e, result, inner_size) ==
    CASE IsExitEvent(e) -> <<[op |-> "exit"]>>
      [] e.kind = "Resized" -> OnResized(e.new_size)
      [] e.kind = "RedrawRequested" -> OnRedrawRequested(result, inner_size)
      [] OTHER -> <<[op |-> "handle_input", event |-> e]>>

\* window_event: the calls made for an event of the window of app
OnWindowEvent(e, result, inner_size) ==
    <<[op |-> "handle_input", event |-> e]>>
        \o CASE IsExitEvent(e) -> <<[op |-> "exit"]>>
             [] e.kind = "Resized" -> OnResized(e.new_size)
             [] e.kind = "RedrawRequested" -> OnRedrawRequested(result, inner_size)
             [] OTHER -> <<>>

Called(calls, op) == \E i \in 1..Len(calls) : calls[i].op = op

\* AppHandler::resumed: the event loop creates a window, App::new builds the
\* renderer for it, and the result replaces whatever app held
Resumed ==
    /\ windows_created < MaxWindows
    /\ windows_created' = windows_created + 1
    /\ app' = Some([window |-> windows_created'])
    /\ event' = [handler |-> "resumed", serial |-> 1 - event.serial]
    /\ app_calls' = <<[op |-> "create_window", returned |-> windows_created'],
                      [op |-> "new", window |-> windows_created']>>
    /\ redraw_pending' = FALSE
    /\ UNCHANGED <<exiting, pathtracer_vars, timer_vars, table_vars>>

\* AppHandler::window_event for event e of window window_id
WindowEvent(window_id, e) ==
    /\ window_id \in 1..windows_created
    /\ \E result \in RenderResults, inner_size \in EventSizes :
          LET calls == IF app # None /\ window_id = app[1].window
                       THEN OnWindowEvent(e, result, inner_size)
                       ELSE <<>>
          IN  /\ app_calls' = calls
              /\ exiting' = (exiting \/ Called(calls, "exit"))
              /\ redraw_pending' =
                    IF Called(calls, "request_redraw") THEN TRUE
                    ELSE IF calls # <<>> /\ e.kind = "RedrawRequested" THEN FALSE
                    ELSE redraw_pending
    /\ event' = [handler |-> "window_event", serial |-> 1 - event.serial,
                 window_id |-> window_id, event |-> e]
    /\ UNCHANGED <<app, windows_created, pathtracer_vars, timer_vars, table_vars>>

\* the event loop delivers the redraw that was requested for the window of app
RedrawDelivered ==
    /\ ~exiting
    /\ app # None
    /\ redraw_pending
    /\ WindowEvent(app[1].window, [kind |-> "RedrawRequested"])

(***************************************************************************)
(* The sampling table generated in Pathtracer::new                         *)
(* (src/src/pathtracing/pathtracer.rs).                                    *)
(***************************************************************************)
\* sobol_burley::sample_4d: a function of its three arguments
Sample4d(sample_index, dimension_set, seed) ==
    [sample_index |-> sample_index, dimension_set |-> dimension_set, seed |-> seed]

\* the range 0..n as the sequence of its items
Range(n) == [i \in 1..n |-> i - 1]

\* the product iterating its first range fastest
RECURSIVE IProductInnerFirst(_, _)
IProductInnerFirst(a, b) ==
    IF b = <<>> THEN <<>>
    ELSE [i \in 1..Len(a) |-> <<a[i], Head(b)>>] \o IProductInnerFirst(a, Tail(b))

\* itertools::iproduct!(a, b): every item of b for the first item of a, then
\* for the second, and so on
RECURSIVE IProduct(_, _)
IProduct(a, b) ==
    IF a = <<>> THEN <<>>
    ELSE [j \in 1..Len(b) |-> <<Head(a), b[j]>>] \o IProduct(Tail(a), b)

\* new: dims
LdsDims(bounces) == bounces * LDS_PER_BOUNCE + 1

\* new: the vector lds collected from the product of 0..n and 0..dims
GenerateLds(n, dims) ==
    LET pairs == IProduct(Range(n), Range(dims))
    IN  [i \in 1..Len(pairs) |-> Sample4d(pairs[i][1], pairs[i][2], 0)]

\* the table is generated
Generate ==
    /\ lds_table = None
    /\ lds_table' = Some(GenerateLds(lds_input.n, LdsDims(lds_input.bounces)))
    /\ UNCHANGED <<lds_input, pathtracer_vars, timer_vars, driver_vars>>

\* the table of new, whose entries only SpecTable follows
DefaultTable ==
    /\ lds_input = [n |-> DefaultMaxSampleCount, bounces |-> DefaultBounces]
    /\ lds_table = None

\* the timer, the driver and the table next to a renderer under study
OthersIdle == NewTimer(1) /\ AppHandlerDefault /\ DefaultTable

others == <<timer_vars, driver_vars, table_vars>>

\* one renderer, for the specifications that study another component
OneRenderer == New([width |-> DimStep, height |-> DimStep], "camera_a", "envmap_a")

\* the window a renderer is constructed for has a non-zero area; sizes with a
\* zero dimension arrive later, through resize
Init ==
    /\ \E s \in Sizes, c \in Cameras, e \in EnvMaps : NonZeroArea(s) /\ New(s, c, e)
    /\ OthersIdle

Next ==
    \/ UNCHANGED others /\ \E s \in Sizes : ContextResize(s)
    \/ UNCHANGED others /\ Resize
    \/ UNCHANGED others /\ Invalidate
    \/ UNCHANGED others /\ \E c \in Cameras, e \in EnvMaps : Update(c, e)
    \/ UNCHANGED others /\ Dispatch
    \/ UNCHANGED others /\ \E b \in 0..MaxBounces : SetBounces(b)
    \/ UNCHANGED others /\ \E m \in 0..MaxSamples : SetMaxSampleCount(m)

Spec == Init /\ [][Next]_vars

(***************************************************************************)
(* The renderer with max_sample_count fixed for the run: a caller may      *)
(* assign the public field once, right after construction.                 *)
(***************************************************************************)
NextFixed ==
    \/ UNCHANGED others /\ \E s \in Sizes : ContextResize(s)
    \/ UNCHANGED others /\ Resize
    \/ UNCHANGED others /\ Invalidate
    \/ UNCHANGED others /\ \E c \in Cameras, e \in EnvMaps : Update(c, e)
    \/ UNCHANGED others /\ Dispatch
    \/ UNCHANGED others /\ \E b \in 0..MaxBounces : SetBounces(b)
    \/ UNCHANGED others /\ last_call.op = "new" /\ \E m \in 0..MaxSamples : SetMaxSampleCount(m)

SpecFixed == Init /\ [][NextFixed]_vars

(***************************************************************************)
(* Output texture sizes over every window size up to MaxWindow.            *)
(***************************************************************************)
InitTexture ==
    /\ \E s \in WideSizes : NonZeroArea(s) /\ New(s, "camera_a", "envmap_a")
    /\ OthersIdle

NextTexture ==
    \/ UNCHANGED others /\ \E s \in WideSizes : ContextResize(s)
    \/ UNCHANGED others /\ Resize

SpecTexture == InitTexture /\ [][NextTexture]_vars

(***************************************************************************)
(* A frame timer of every capacity up to MaxCapacity.                      *)
(***************************************************************************)
InitTimer ==
    /\ OneRenderer
    /\ \E BUFFER_SIZE \in 1..MaxCapacity : NewTimer(BUFFER_SIZE)
    /\ AppHandlerDefault
    /\ DefaultTable

NextTimer ==
    \/ \E d \in FrameTimes : NextFrame(d)
    \/ Pause

SpecTimer == InitTimer /\ [][NextTimer]_vars

(***************************************************************************)
(* The application driver under the events the event loop delivers.        *)
(***************************************************************************)
InitDriver ==
    /\ OneRenderer
    /\ NewTimer(1)
    /\ AppHandlerDefault
    /\ DefaultTable

NextDriver ==
    \/ Resumed
    \/ \E w \in 1..MaxWindows, e \in WindowEvents : WindowEvent(w, e)

SpecDriver == InitDriver /\ [][NextDriver]_vars

\* a redraw requested for the window of a running driver is delivered
SpecDriverFair == SpecDriver /\ WF_vars(RedrawDelivered)

(***************************************************************************)
(* The sampling table for every input up to the bounds.                    *)
(***************************************************************************)
InitTable ==
    /\ OneRenderer
    /\ NewTimer(1)
    /\ AppHandlerDefault
    /\ lds_input \in [n : 0..MaxTableSamples, bounces : 0..MaxTableBounces]
    /\ lds_table = None

NextTable == Generate

SpecTable == InitTable /\ [][NextTable]_vars

(***************************************************************************)
(* What a recorded dispatch handed to the GPU.                             *)
(***************************************************************************)
Recorded == last_call.op = "dispatch" /\ gpu_calls # <<>>
BoundGroup == gpu_calls[3].group
PushConstants == gpu_calls[5].globals
Grid == gpu_calls[6].grid

Abs(x) == IF x < 0 THEN -x ELSE x

\* w is the f32 nearest to 1/s: |w - 1/s| is at most half a unit in the last place
NearestToReciprocal(w, s) ==
    /\ w.mant >= 2^23 /\ w.mant < 2^24
    /\ w.exp <= 0 /\ w.exp >= -30
    /\ 2 * Abs(w.mant * s - 2^(-w.exp)) <= s

(***************************************************************************)
(* Claims.                                                                 *)
(***************************************************************************)
\* C1: a dispatch that records a kernel invocation binds a group that references
\* the current output texture, the camera and environment map given at the last
\* new / update, and the sampling table.
C1_BindingsCurrent ==
    Recorded =>
        /\ BoundGroup.output = output
        /\ BoundGroup.camera = given.camera
        /\ BoundGroup.envmap = given.envmap
        /\ BoundGroup.lds = lds_buffer

\* C2: a dispatch called with sample >= max_sample_count changes nothing of the
\* renderer and records no GPU call.
C2_SaturatedDispatchNoOp ==
    [][(last_call'.op = "dispatch" /\ globals.sample >= max_sample_count)
        => (UNCHANGED renderer /\ gpu_calls' = <<>>)]_vars

\* a dispatch was called on a saturated renderer that had accumulated samples
C2_Witness ==
    /\ last_call.op = "dispatch"
    /\ gpu_calls = <<>>
    /\ globals.sample >= 1
    /\ globals.sample >= max_sample_count

\* C3: the push constants of every recorded invocation are the accumulation state
\* after the increment, with sample in 1..max_sample_count and weight the f32
\* nearest to 1/sample.
C3_PushedStateConsistent ==
    Recorded =>
        /\ PushConstants = globals
        /\ PushConstants.sample >= 1
        /\ PushConstants.sample <= max_sample_count
        /\ NearestToReciprocal(PushConstants.weight, PushConstants.sample)

\* the third and last sample of a renderer with max_sample_count 3 was dispatched
C3_Witness ==
    /\ Recorded
    /\ PushConstants.sample = 3
    /\ PushConstants.weight = [mant |-> 11184811, exp |-> -25]
    /\ max_sample_count = 3

\* C4 (SpecFixed): with max_sample_count fixed at M the dispatches since the
\* sample index was last 0 pushed sample 1, 2, ... in order with weights 1, 1/2,
\* ..., one invocation each, never more than M of them, and 0 <= sample <= M.
C4_CountsUpToMax ==
    /\ globals.sample >= 0
    /\ globals.sample <= max_sample_count
    /\ Len(pushed) = globals.sample
    /\ \A i \in 1..Len(pushed) :
          /\ pushed[i].sample = i
          /\ NearestToReciprocal(pushed[i].weight, i)
    /\ Recorded =>
          /\ Cardinality({i \in 1..Len(gpu_calls) : gpu_calls[i].call = "dispatch_workgroups"}) = 1
          /\ PushConstants.sample = globals.sample

\* a renderer with M >= 2 took its M samples and a further dispatch recorded nothing
C4_Witness ==
    /\ max_sample_count >= 2
    /\ max_sample_count < DefaultMaxSampleCount
    /\ globals.sample = max_sample_count
    /\ Len(pushed) = max_sample_count
    /\ last_call.op = "dispatch"
    /\ gpu_calls = <<>>

\* what a freshly constructed renderer pushes in its first k dispatches
RECURSIVE FreshGlobals(_)
FreshGlobals(k) == IF k = 0 THEN GlobalsDefault ELSE NextGlobals(FreshGlobals(k - 1))
FreshPushes(k) ==
    [i \in 1..k |-> [sample |-> FreshGlobals(i).sample, weight |-> FreshGlobals(i).weight]]

\* C5: invalidate leaves sample at 0 whatever the state before, records no GPU
\* call, and the pairs pushed since are those a fresh renderer pushes.
C5_InvalidateRestarts ==
    /\ last_call.op = "invalidate" => (globals.sample = 0 /\ gpu_calls = <<>>)
    /\ Len(pushed) = globals.sample
    /\ pushed = FreshPushes(Len(pushed))

\* invalidate was called on a renderer saturated after two samples
C5_Witness ==
    /\ last_call.op = "invalidate"
    /\ globals.sample = 0
    /\ globals.weight = [mant |-> 8388608, exp |-> -24]
    /\ max_sample_count = 2

\* C6: update leaves the binding set built from the current output texture, the
\* camera and environment map it was given and the sampling table, and sample 0.
C6_UpdateRebindsAndResets ==
    last_call.op = "update" =>
        /\ global_group = [output |-> output, camera |-> given.camera,
                           lds |-> lds_buffer, envmap |-> given.envmap]
        /\ globals.sample = 0
        /\ pushed = <<>>

\* update was called with another camera after a resize and some accumulation
C6_Witness ==
    /\ last_call.op = "update"
    /\ output.id >= 2
    /\ globals.weight # F32Zero
    /\ given.camera = "camera_b"

\* C7: resize creates a new output texture and leaves the accumulation state as
\* it was, so a dispatch right after it continues with sample + 1.
C7_ResizeKeepsAccumulation ==
    [][/\ last_call'.op = "resize" =>
            /\ globals' = globals
            /\ max_sample_count' = max_sample_count
            /\ output'.id # output.id
       /\ (last_call.op = "resize" /\ last_call'.op = "dispatch"
             /\ globals.sample < max_sample_count) =>
            globals'.sample = globals.sample + 1]_vars

\* a resize happened after at least one accumulated sample
C7_Witness ==
    /\ last_call.op = "resize"
    /\ globals.sample >= 1
    /\ output.id >= 2

\* C8: the sampling table bound by a recorded dispatch holds max_sample_count x
\* (2 * bounces + 1) vectors for the current bounces and max_sample_count.
C8_TableMatchesParameters ==
    Recorded =>
        /\ BoundGroup.lds.n = max_sample_count
        /\ BoundGroup.lds.dims = 2 * globals.bounces + 1
        /\ BoundGroup.lds.len = max_sample_count * (2 * globals.bounces + 1)

\* the output texture has the size create_output_texture gives the configuration
OutputInSync ==
    /\ output.width = OutputDim(config.width, resolution_factor)
    /\ output.height = OutputDim(config.height, resolution_factor)

\* C9: a context resize with a zero dimension leaves the configuration and the
\* surface alone; with both non-zero it stores the size and reconfigures the
\* surface; a renderer resize and a dispatch after a zero resize leave the output
\* dimensions as they were.
C9_ZeroResizeIgnored ==
    [][/\ (last_call'.op = "context_resize"
             /\ (last_call'.new_size.width = 0 \/ last_call'.new_size.height = 0)) =>
            /\ config' = config
            /\ surface' = surface
            /\ gpu_calls' = <<>>
       /\ (last_call'.op = "context_resize"
             /\ last_call'.new_size.width > 0 /\ last_call'.new_size.height > 0) =>
            /\ config' = last_call'.new_size
            /\ surface' = last_call'.new_size
            /\ gpu_calls' = <<[call |-> "surface.configure",
                               width |-> last_call'.new_size.width,
                               height |-> last_call'.new_size.height]>>
       /\ (last_call'.op = "resize"
             /\ last_call.op = "context_resize"
             /\ (last_call.new_size.width = 0 \/ last_call.new_size.height = 0)
             /\ OutputInSync) =>
            /\ output'.width = output.width
            /\ output'.height = output.height
       /\ last_call'.op = "dispatch" => (output' = output /\ config' = config)]_vars

\* a context resize with a zero height was called on a configured context
C9_Witness ==
    /\ last_call.op = "context_resize"
    /\ last_call.new_size.width > 0
    /\ last_call.new_size.height = 0
    /\ gpu_calls = <<>>
    /\ config.width > 0
    /\ config.height > 0
    /\ output.id >= 2

\* C10 (SpecTexture): after new or resize each output dimension is
\* floor(d * 3/10 / 8) * 8 for the configured d, a multiple of 8, at most d * 3/10.
C10_OutputSize ==
    last_call.op \in {"new", "resize"} =>
        \A p \in {<<config.width, output.width>>, <<config.height, output.height>>} :
            /\ p[2] = (((p[1] * 3) \div 10) \div 8) * 8
            /\ p[2] % 8 = 0
            /\ 10 * p[2] <= 3 * p[1]

\* a resize to a width of 54 or more gave a 16 wide output, rounded down
C10_Witness ==
    /\ last_call.op = "resize"
    /\ config.width >= 54
    /\ output.width = 16
    /\ 10 * output.width < 3 * config.width

(***************************************************************************)
(* What the calls made on a frame timer say it measured.                   *)
(***************************************************************************)
Min(a, b) == IF a <= b THEN a ELSE b

RECURSIVE SumSeq(_)
SumSeq(seq) == IF seq = <<>> THEN 0 ELSE Head(seq) + SumSeq(Tail(seq))

\* the last k items of seq
LastOf(seq, k) == SubSeq(seq, Len(seq) - k + 1, Len(seq))

Paused(calls) == \E i \in 1..Len(calls) : calls[i].op = "pause"

\* the time between every two next_frame calls that follow one another with
\* no pause in between, oldest first
RECURSIVE FrameDeltas(_)
FrameDeltas(calls) ==
    IF Len(calls) < 2 THEN <<>>
    ELSE LET n == Len(calls)
         IN  FrameDeltas(SubSeq(calls, 1, n - 1))
                 \o (IF calls[n].op = "next_frame" /\ calls[n - 1].op = "next_frame"
                     THEN <<calls[n].at - calls[n - 1].at>>
                     ELSE <<>>)

\* the ring buffer slot written j writes ago
SlotBefore(m, j) == m.frame_time_buffer[((m.idx + BufferSize(m) * j - j) % BufferSize(m)) + 1]

C12_PauseDropsAnchorOnly ==
    [][LET n == Len(timer_calls)
           called == timer_calls'[n + 1].op
           deltas == FrameDeltas(timer_calls')
           kept == Min(Len(deltas), BufferSize(metrics'))
       IN  Len(timer_calls') = n + 1 =>
               /\ called = "pause" =>
                     metrics' = [metrics EXCEPT !.last_frame = None]
               /\ (called = "next_frame" /\ n >= 1 /\ timer_calls[n].op = "pause") =>
                     metrics' = [metrics EXCEPT !.last_frame = Some(clock')]
               /\ metrics'.time_since_start = SumSeq(deltas)
               /\ metrics'.n_frames = kept
               /\ metrics'.summed_frame_time = SumSeq(LastOf(deltas, kept))
               /\ \A j \in 1..kept :
                     SlotBefore(metrics', j) = deltas[Len(deltas) - j + 1]
      ]_vars

\* a timer paused while anchored, with time passing before the next_frame
\* that follows the pause and one more frame measured after it
C12_Witness ==
    \E i \in 2..(Len(timer_calls) - 2) :
        /\ timer_calls[i].op = "pause"
        /\ timer_calls[i - 1].op = "next_frame"
        /\ timer_calls[i + 1].op = "next_frame"
        /\ timer_calls[i + 2].op = "next_frame"
        /\ timer_calls[i + 1].at > timer_calls[i - 1].at
        /\ metrics.time_since_start < clock - timer_calls[1].at
        /\ metrics.n_frames >= 1

(***************************************************************************)
(* What a handler of the application driver did.                           *)
(***************************************************************************)
\* the calls on the renderer and its window that the driver makes for events
RendererOps == {"handle_input", "resize", "update", "render", "request_redraw"}

Positions(calls, op) == {i \in 1..Len(calls) : calls[i].op = op}

\* the driver holds a renderer and has not asked the event loop to exit
Running == app # None /\ ~exiting

\* this step handles a window event addressed to the window of app
HandlesOwnEvent ==
    /\ app # None
    /\ event'.handler = "window_event"
    /\ event'.serial # event.serial
    /\ event'.window_id = app[1].window

\* C13: once exit has been called no renderer operation follows: a handler
\* calls nothing in RendererOps after its own exit call, and a handler that
\* runs after exit was called calls nothing in RendererOps at all.
C13_TerminatingIsAbsorbing ==
    [][/\ \A i \in Positions(app_calls', "exit"), j \in 1..Len(app_calls') :
              j > i => app_calls'[j].op \notin RendererOps
       /\ exiting => \A j \in 1..Len(app_calls') : app_calls'[j].op \notin RendererOps
      ]_vars

\* C14: while Running, a window event of the driver's window calls exit
\* exactly when it is CloseRequested, a Pressed KeyboardInput of Escape, or
\* a RedrawRequested whose render returned OutOfMemory.
C14_ExitCauses ==
    [][(~exiting /\ HandlesOwnEvent) =>
           LET e == event'.event
               rendered == {app_calls'[i].returned : i \in Positions(app_calls', "render")}
               cause ==
                   \/ e.kind = "CloseRequested"
                   \/ e.kind = "KeyboardInput" /\ e.state = "Pressed" /\ e.physical_key = "Escape"
                   \/ e.kind = "RedrawRequested" /\ "OutOfMemory" \in rendered
           IN  /\ exiting' <=> cause
               /\ Positions(app_calls', "exit") # {} <=> cause
      ]_vars

\* a redraw whose render returned OutOfMemory has made the driver call exit
C14_Witness ==
    /\ event.handler = "window_event"
    /\ event.event.kind = "RedrawRequested"
    /\ \E i \in Positions(app_calls, "render") : app_calls[i].returned = "OutOfMemory"
    /\ Positions(app_calls, "exit") # {}
    /\ exiting

\* what render returned in the handler that made calls
RenderReturned(calls) == {calls[i].returned : i \in Positions(calls, "render")}

\* C15: while Running, a redraw whose render returned Lost calls resize
\* exactly once, with the size Window::inner_size returned in that handler,
\* and does not call exit; a redraw whose render returned Timeout or Outdated
\* calls neither resize nor exit; in both cases the driver keeps its app and
\* is still Running.
C15_RenderErrors ==
    [][(~exiting /\ HandlesOwnEvent /\ event'.event.kind = "RedrawRequested") =>
           LET calls == app_calls'
               resizes == Positions(calls, "resize")
               stays == Positions(calls, "exit") = {} /\ ~exiting' /\ app' = app
           IN  /\ "Lost" \in RenderReturned(calls) =>
                     /\ Cardinality(resizes) = 1
                     /\ \A i \in resizes :
                           /\ i > 1
                           /\ calls[i - 1].op = "inner_size"
                           /\ calls[i].new_size = calls[i - 1].returned
                           /\ \A r \in Positions(calls, "render") : r < i
                     /\ stays
               /\ RenderReturned(calls) \cap {"Timeout", "Outdated"} # {} =>
                     /\ resizes = {}
                     /\ stays
      ]_vars

\* a redraw whose render returned Lost has resized to the inner size, and
\* the driver is still Running
C15_Witness ==
    /\ Running
    /\ event.handler = "window_event"
    /\ event.event.kind = "RedrawRequested"
    /\ "Lost" \in RenderReturned(app_calls)
    /\ Positions(app_calls, "resize") # {}

\* this step handles a RedrawRequested event of the window of app
HandlesRedraw == HandlesOwnEvent /\ event'.event.kind = "RedrawRequested"

\* C16: while Running, a RedrawRequested event calls update exactly once and
\* then render exactly once, and when render returned Ok the handler ends by
\* requesting another redraw; and in every run in which requested redraws
\* are delivered, either exit is called, or from some point on no redraw is
\* requested for the window of app, or redraws are handled again and again
\* forever.
C16_RedrawLoop ==
    /\ [][(~exiting /\ HandlesRedraw) =>
              LET calls == app_calls'
                  updates == Positions(calls, "update")
                  renders == Positions(calls, "render")
              IN  /\ Cardinality(updates) = 1
                  /\ Cardinality(renders) = 1
                  /\ \A u \in updates, r \in renders : u < r
                  /\ "Ok" \in RenderReturned(calls) =>
                        /\ calls[Len(calls)].op = "request_redraw"
                        /\ \A r \in renders : r < Len(calls)
                        /\ redraw_pending'
                        /\ ~exiting'
         ]_vars
    /\ \/ <>exiting
       \/ <>[]~redraw_pending
       \/ []<><<HandlesRedraw /\ Positions(app_calls', "render") # {}>>_vars

\* a Running driver has rendered a redraw successfully and asked for the
\* next one
C16_Witness ==
    /\ Running
    /\ redraw_pending
    /\ event.handler = "window_event"
    /\ event.event.kind = "RedrawRequested"
    /\ event.window_id = app[1].window
    /\ "Ok" \in RenderReturned(app_calls)
    /\ app_calls[Len(app_calls)].op = "request_redraw"

\* C17: while Running, a window event of the driver's window is passed to
\* handle_input exactly once, as the first call of the handler, whatever its
\* kind.
C17_InputForwardedFirst ==
    [][(~exiting /\ HandlesOwnEvent) =>
           /\ Cardinality(Positions(app_calls', "handle_input")) = 1
           /\ app_calls'[1] = [op |-> "handle_input", event |-> event'.event]
      ]_vars

\* a close request was passed to handle_input before exit was called
C17_Witness ==
    /\ event.handler = "window_event"
    /\ event.event.kind = "CloseRequested"
    /\ Len(app_calls) = 2
    /\ app_calls[1].op = "handle_input"
    /\ app_calls[2].op = "exit"

\* C18: while Running, a Resized event calls resize exactly once, with the
\* size the event carries, requests a redraw after that call, and calls
\* neither update nor render.
C18_ResizeThenRedraw ==
    [][(~exiting /\ HandlesOwnEvent /\ event'.event.kind = "Resized") =>
           LET calls == app_calls'
               resizes == Positions(calls, "resize")
           IN  /\ Cardinality(resizes) = 1
               /\ \A i \in resizes :
                     /\ calls[i].new_size = event'.event.new_size
                     /\ \E j \in Positions(calls, "request_redraw") : j > i
               /\ Positions(calls, "update") = {}
               /\ Positions(calls, "render") = {}
               /\ redraw_pending'
      ]_vars

\* a Resized event of non-zero size was handled by a Running driver
C18_Witness ==
    /\ Running
    /\ event.handler = "window_event"
    /\ event.event.kind = "Resized"
    /\ event.event.new_size.width > 0
    /\ Positions(app_calls, "resize") # {}
    /\ redraw_pending

\* C20: only the first activation creates a window and a renderer: resumed
\* called on a driver that already holds an app creates neither and leaves
\* app as it is.
C20_SingleActivation ==
    [][(app # None /\ event'.handler = "resumed" /\ event'.serial # event.serial) =>
           /\ Positions(app_calls', "create_window") = {}
           /\ Positions(app_calls', "new") = {}
           /\ windows_created' = windows_created
           /\ app' = app
      ]_vars

(***************************************************************************)
(* The layout of the sampling table.                                       *)
(***************************************************************************)
\* C19: for every sample count N and bounce count B the generated table
\* has exactly N * (2B+1) entries, and for every sample_index s < N and
\* dimension set d < 2B+1 the entry at position s * (2B+1) + d, counted
\* from 0, is sample_4d(s, d, 0).
C19_TableLayout ==
    lds_table # None =>
        LET table == lds_table[1]
            N == lds_input.n
            width == 2 * lds_input.bounces + 1
        IN  /\ Len(table) = N * width
            /\ \A s \in 0..(N - 1), d \in 0..(width - 1) :
                   table[s * width + d + 1] = Sample4d(s, d, 0)

\* a generated table of several samples and several dimension sets
C19_Witness ==
    /\ lds_table # None
    /\ lds_input.n >= 2
    /\ lds_input.bounces >= 2
    /\ Len(lds_table[1]) >= 10

(***************************************************************************)
(* The workgroup grid of a recorded dispatch.                              *)
(***************************************************************************)
\* C21: for every dispatch that records a kernel invocation, the grid is
\* (width / 8, height / 8, 1) of the renderer's current output texture, and
\* the grid times 8 is, in each dimension, the size of the output texture
\* referenced by the bind group that invocation binds.
C21_GridCoversBoundImage ==
    Recorded =>
        /\ Grid = [x |-> output.width \div 8, y |-> output.height \div 8, z |-> 1]
        /\ Grid.x * 8 = BoundGroup.output.width
        /\ Grid.y * 8 = BoundGroup.output.height

====
